---- MODULE Spec2Model ----
(***************************************************************************)
(* Model of the export pipeline of ffmeg-UI: the shared ExportQueue        *)
(* (src/export_queue.rs), its single-flight dispatcher                     *)
(* FFmpegApp::process_queue with the spawned transcode task (src/app.rs),  *)
(* and the batch coordinator (start_batch_auto_cut / poll_batch).          *)
(*                                                                         *)
(* Threads.  Every FFmpegApp method takes &mut self and is called from     *)
(* eframe's update(), so the UI thread is sequential: its only position    *)
(* that other threads can observe is the gap between the two lock          *)
(* acquisitions of process_queue (uiPc = "dispatch").  The tokio tasks     *)
(* spawned by process_queue run concurrently with it; each of their        *)
(* critical sections is one action.                                        *)
(***************************************************************************)
EXTENDS Integers, Sequences, FiniteSets, TLC

\* ------------------------------------------------------------------ bounds
\* Cap on the id counter: add_* is disabled once next_id reaches it.
MaxJobs == 3

\* -------------------------------------------------------------------- time
\* The f64 seconds of the source are integers in ticks of 1/TicksPerSec s.
TicksPerSec == 20

\* Media files that exist on disk (paths 1..NumPaths) and the cap on the
\* number of files loaded into the project at a time.
NumPaths == 2
MaxFiles == 2

\* Caps on the number of start_auto_cut and start_batch_auto_cut launches.
MaxAutoStarts == 2
MaxBatchStarts == 2

VARIABLES
    \* ---- ExportQueue (behind the SharedQueue mutex) and its tasks
    jobs,           \* ExportQueue.jobs : Vec<ExportJob>, in insertion order
    next_id,        \* ExportQueue.next_id : u32
    is_processing,  \* ExportQueue.is_processing
    uiPc,           \* position of the UI thread inside process_queue
    workers,        \* job ids captured by the spawned transcode tasks still running
    returned,       \* history: the ids returned by add_*, in call order
    dispatched,     \* history: the ids process_queue marked Running, in order
    \* ---- FFmpegApp: project, segments, caches
    files,                  \* project.files, as the paths of the MediaFiles
    selected_file_index,    \* position in files (1-based), NoIndex for None
    player,                 \* player.is_some()
    segments,               \* the active segment list
    file_segments,          \* HashMap<PathBuf, Vec<SplitSegment>>
    bitrate_maps,           \* HashMap<PathBuf, BitrateMap>
    max_size,               \* split_settings.max_size_mb, in bytes
    files_added,            \* history: number of files added so far
    \* ---- single-file auto-cut
    auto_cut_running,
    auto_cut_silences,      \* shared slot: Option<Vec<SilenceInterval>>
    auto_cut_bitrate_map,   \* shared slot: Option<BitrateMap>
    autoTasks,              \* analyses in flight: [kind, path, run]
    auto_starts,            \* number of start_auto_cut launches so far
    \* ---- batch
    batch_running,
    batch_status,
    batch_total,
    batch_results,          \* the Vec behind the current Arc<Mutex<..>>
    batch_auto_export,
    batchTasks,             \* detections in flight for the current Vec: [idx, path]
    batch_run,              \* number of batch launches so far
    batch_mode,             \* history: how the current batch was launched
    exports_of_batch,       \* history: export_all_files calls made by poll_batch
                            \* since the current batch was launched
    crashed,                \* the UI thread has panicked
    \* ---- a call of one of the pure functions
    fn,                     \* the function applied, "none" before the call
    call,                   \* its arguments
    ret                     \* what it returned

queueVars == <<jobs, next_id, is_processing, uiPc, workers, returned, dispatched>>

projectVars == <<files, selected_file_index, player, segments, file_segments,
                 bitrate_maps, max_size, files_added>>

autoCutVars == <<auto_cut_running, auto_cut_silences, auto_cut_bitrate_map,
                 autoTasks, auto_starts>>

batchVars == <<batch_running, batch_status, batch_total, batch_results,
               batch_auto_export, batchTasks, batch_run, batch_mode,
               exports_of_batch>>

fnVars == <<fn, call, ret>>

appVars == <<projectVars, autoCutVars, batchVars, crashed, fnVars>>

vars == <<queueVars, appVars>>

\* ------------------------------------------------------------ JobStatus
Pending == <<"Pending">>
Running == <<"Running">>
Completed == <<"Completed">>
Failed(reason) == <<"Failed", reason>>

IsFailed(s) == s[1] = "Failed"
IsTerminal(s) == s = Completed \/ IsFailed(s)

\* Error texts a transcode can report (e.to_string()).
TranscodeErrors == {"ffmpeg error"}

\* ------------------------------------------------------------ ExportJob
\* Times are in ticks (see TicksPerSec).  The output path and the TrimMode
\* of a job are carried through to the transcode unchanged and are left out.
TrimOp(start, end) == <<"Trim", start, end>>
ConcatOp(inputs) == <<"Concat", inputs>>

new_trim(id, input, start, end) ==
    [id |-> id, input |-> input, operation |-> TrimOp(start, end),
     status |-> Pending, progress |-> 0, segment_label |-> <<>>]

new_trim_with_label(id, input, start, end, label) ==
    [id |-> id, input |-> input, operation |-> TrimOp(start, end),
     status |-> Pending, progress |-> 0, segment_label |-> label]

\* add_concat: the job's input is the first of the inputs.
new_concat(id, inputs, label) ==
    [id |-> id, input |-> Head(inputs), operation |-> ConcatOp(inputs),
     status |-> Pending, progress |-> 0, segment_label |-> label]

\* ----------------------------------------------------------- ExportQueue
Indices(q) == 1..Len(q)

has_pending(q) == \E i \in Indices(q) : q[i].status = Pending

pending_count(q) == Cardinality({i \in Indices(q) : q[i].status = Pending})

\* Variant: picks the last Pending job instead of the first.
next_pending_last(q) ==
    IF has_pending(q)
    THEN CHOOSE i \in Indices(q) :
            /\ q[i].status = Pending
            /\ \A k \in (i + 1)..Len(q) : q[k].status # Pending
    ELSE 0

\* next_pending(): index of the first Pending job, 0 for None.
next_pending(q) ==
    IF has_pending(q)
    THEN CHOOSE i \in Indices(q) :
            /\ q[i].status = Pending
            /\ \A k \in 1..(i - 1) : q[k].status # Pending
    ELSE 0

\* get_job_mut(id): index of the first job with that id, 0 for None.
get_job_mut(q, id) ==
    IF \E i \in Indices(q) : q[i].id = id
    THEN CHOOSE i \in Indices(q) :
            /\ q[i].id = id
            /\ \A k \in 1..(i - 1) : q[k].id # id
    ELSE 0

\* Variant: also cancels the job that is Running.
cancel_all_also_running(q) ==
    [i \in Indices(q) |->
        IF q[i].status = Pending \/ q[i].status = Running
        THEN [q[i] EXCEPT !.status = Failed("Cancelled")]
        ELSE q[i]]

\* Variant: stops after the first Pending job.
cancel_all_first_only(q) ==
    [i \in Indices(q) |->
        IF q[i].status = Pending /\ \A k \in 1..(i - 1) : q[k].status # Pending
        THEN [q[i] EXCEPT !.status = Failed("Cancelled")]
        ELSE q[i]]

cancel_all(q) ==
    [i \in Indices(q) |->
        IF q[i].status = Pending
        THEN [q[i] EXCEPT !.status = Failed("Cancelled")]
        ELSE q[i]]

KeepUnfinished(j) == j.status = Pending \/ j.status = Running

\* Vec::retain keeps the matching elements in order, as SelectSeq does.
clear_finished(q) == SelectSeq(q, KeepUnfinished)

remove_job(q, id) ==
    LET KeepOther(j) == j.id # id IN SelectSeq(q, KeepOther)

total_progress(q) ==
    <<Cardinality({i \in Indices(q) : IsTerminal(q[i].status)}), Len(q)>>

\* ---------------------------------------------------------- f64 helpers
Min(a, b) == IF a <= b THEN a ELSE b
Max(a, b) == IF a >= b THEN a ELSE b
Abs(a) == IF a >= 0 THEN a ELSE 0 - a

Secs(n) == n * TicksPerSec
TenthSec == TicksPerSec \div 10
HalfSec == TicksPerSec \div 2
OneSec == TicksPerSec

\* `t.floor() as usize` and `t.ceil() as usize`; a negative float casts to 0.
FloorSec(t) == Max(t, 0) \div TicksPerSec
CeilSec(t) == (Max(t, 0) + TicksPerSec - 1) \div TicksPerSec

\* (max_bytes as f64 * 0.98) as u64
EffectiveMax(max_bytes) == (max_bytes * 98) \div 100

\* effective_max_bytes as f64 / (bitrate_bps / 8.0), floored to a tick.
MaxDuration(effective_max_bytes, bitrate_bps) ==
    (effective_max_bytes * 8 * TicksPerSec) \div bitrate_bps

\* Iterations of a planner or splitter loop that are followed: more than
\* a loop that advances needs on any input given to it here.
MaxLoop == 30

\* ------------------------------------------------------- SilenceInterval
midpoint(s) == (s.start + s.end) \div 2

\* Variant with the two ends of the window exchanged in the filter.
BestSilence_window_reversed(silences, window_start, window_end, ideal_end) ==
    LET InWindow == {i \in 1..Len(silences) :
                        /\ midpoint(silences[i]) >= window_end
                        /\ midpoint(silences[i]) <= window_start}
        Dist(i) == Abs(midpoint(silences[i]) - ideal_end)
    IN IF InWindow = {} THEN 0
       ELSE CHOOSE i \in InWindow :
                /\ \A k \in InWindow : Dist(i) <= Dist(k)
                /\ \A k \in InWindow : k < i => Dist(k) > Dist(i)

\* The filter + min_by of both planners: index of the first silence whose
\* midpoint is in the window and closest to ideal_end, 0 for None.
BestSilence(silences, window_start, window_end, ideal_end) ==
    LET InWindow == {i \in 1..Len(silences) :
                        /\ midpoint(silences[i]) >= window_start
                        /\ midpoint(silences[i]) <= window_end}
        Dist(i) == Abs(midpoint(silences[i]) - ideal_end)
    IN IF InWindow = {} THEN 0
       ELSE CHOOSE i \in InWindow :
                /\ \A k \in InWindow : Dist(i) <= Dist(k)
                /\ \A k \in InWindow : k < i => Dist(k) > Dist(i)

\* ---------------------------------------------------- compute_cut_points
RECURSIVE CutLoop(_, _, _, _, _, _, _)
CutLoop(cursor, cuts, duration, max_duration, tolerance_secs, silences, fuel) ==
    IF ~(cursor < duration - TenthSec) \/ fuel = 0 THEN cuts
    ELSE
      LET ideal_end == Min(cursor + max_duration, duration) IN
      IF ideal_end >= duration - TenthSec
      THEN Append(cuts, <<cursor, duration>>)
      ELSE
        LET window_start == Max(ideal_end - tolerance_secs, cursor + OneSec)
            window_end == Min(ideal_end + tolerance_secs, duration)
            best == BestSilence(silences, window_start, window_end, ideal_end)
            cut_point ==
                IF best # 0 /\ midpoint(silences[best]) - cursor <= max_duration
                THEN midpoint(silences[best])
                ELSE ideal_end
        IN CutLoop(cut_point, Append(cuts, <<cursor, cut_point>>), duration,
                   max_duration, tolerance_secs, silences, fuel - 1)

compute_cut_points(duration, bitrate_bps, max_bytes, tolerance_secs, silences) ==
    IF duration <= 0 \/ bitrate_bps <= 0 \/ max_bytes = 0
    THEN << <<0, Max(duration, 0)>> >>
    ELSE
      LET max_duration == MaxDuration(EffectiveMax(max_bytes), bitrate_bps) IN
      IF duration <= max_duration
      THEN << <<0, duration>> >>
      ELSE CutLoop(0, <<>>, duration, max_duration, tolerance_secs, silences, MaxLoop)

\* ------------------------------------------------------------ BitrateMap
\* cumulative_bytes[i] of the source is cumulative_bytes[i + 1] here.
is_empty(bm) == bm.cumulative_bytes = <<>>

\* Result of an index into an empty cumulative_bytes: the thread panics.
IndexPanic == 0 - 1

LastIndex(bm) == Max(Len(bm.cumulative_bytes) - 1, 0)

bytes_between(bm, start, end) ==
    IF is_empty(bm) THEN IndexPanic
    ELSE
      LET start_sec == Min(FloorSec(start), LastIndex(bm))
          end_sec == Min(CeilSec(end), LastIndex(bm))
      IN Max(bm.cumulative_bytes[end_sec + 1] - bm.cumulative_bytes[start_sec + 1], 0)

time_for_bytes(bm, start_time, target_bytes) ==
    IF is_empty(bm) THEN IndexPanic
    ELSE
      LET start_sec == Min(FloorSec(start_time), LastIndex(bm))
          base_bytes == bm.cumulative_bytes[start_sec + 1]
          reached == {i \in (start_sec + 1)..LastIndex(bm) :
                        bm.cumulative_bytes[i + 1] - base_bytes >= target_bytes}
      IN IF reached = {} THEN bm.duration
         ELSE Secs(CHOOSE i \in reached : \A k \in reached : i <= k)

\* ------------------------------------------- compute_cut_points_accurate
\* One turn of the loop at `cursor`, before the minimum-advance rule: the
\* accepted silence midpoint, else ideal_end.
AccurateCandidate(cursor, duration, eff_max, tolerance_secs, silences, bitrate_map) ==
    LET ideal_end == Min(time_for_bytes(bitrate_map, cursor, eff_max), duration)
        window_start == Max(ideal_end - tolerance_secs, cursor + OneSec)
        window_end == Min(ideal_end + tolerance_secs, duration)
        best == BestSilence(silences, window_start, window_end, ideal_end)
    IN IF best # 0
          /\ bytes_between(bitrate_map, cursor, midpoint(silences[best])) <= eff_max
       THEN midpoint(silences[best])
       ELSE ideal_end

\* "Safety: ensure we advance at least 1 second" applies to this candidate.
MinAdvanceApplies(candidate, cursor) == candidate <= cursor + HalfSec

RECURSIVE AccurateLoop(_, _, _, _, _, _, _, _)
AccurateLoop(cursor, cuts, duration, eff_max, tolerance_secs, silences, bitrate_map, fuel) ==
    IF ~(cursor < duration - TenthSec) \/ fuel = 0 THEN cuts
    ELSE
      LET ideal_end ==
            Min(time_for_bytes(bitrate_map, cursor, eff_max), duration)
      IN
      IF ideal_end >= duration - TenthSec
      THEN Append(cuts, <<cursor, duration>>)
      ELSE
        LET candidate == AccurateCandidate(cursor, duration, eff_max, tolerance_secs,
                                           silences, bitrate_map)
            cut_point ==
                IF MinAdvanceApplies(candidate, cursor)
                THEN Min(cursor + OneSec, duration)
                ELSE candidate
        IN AccurateLoop(cut_point, Append(cuts, <<cursor, cut_point>>),
                        duration, eff_max, tolerance_secs, silences,
                        bitrate_map, fuel - 1)

compute_cut_points_accurate(duration, max_bytes, tolerance_secs, silences, bitrate_map) ==
    IF duration <= 0 \/ max_bytes = 0 \/ is_empty(bitrate_map)
    THEN << <<0, Max(duration, 0)>> >>
    ELSE
      IF bytes_between(bitrate_map, 0, duration) <= EffectiveMax(max_bytes)
      THEN << <<0, duration>> >>
      ELSE AccurateLoop(0, <<>>, duration, EffectiveMax(max_bytes), tolerance_secs,
                        silences, bitrate_map, MaxLoop)

\* ---------------------------------------------------------- SplitSegment
\* SplitSegment::new(start, end, label): enabled, size not yet estimated.
NewSegment(start, end, label) ==
    [start_time |-> start, end_time |-> end, label |-> label,
     enabled |-> TRUE, estimated_size_bytes |-> 0]

SegmentDuration(seg) == seg.end_time - seg.start_time

\* Absent Option<u64> of MediaInfo.
NoBitrate == 0 - 1

\* FFmpegApp::compute_bitrate, in bits per second.
compute_bitrate(info) ==
    IF info.video_bitrate # NoBitrate /\ info.audio_bitrate # NoBitrate
    THEN info.video_bitrate + info.audio_bitrate
    ELSE IF info.video_bitrate # NoBitrate THEN info.video_bitrate
    ELSE IF info.audio_bitrate # NoBitrate THEN info.audio_bitrate
    ELSE IF info.duration > 0
         THEN (info.file_size * 8 * TicksPerSec) \div info.duration
         ELSE 0

\* utils::estimate_segment_size: the average rate over the segment's length.
estimate_segment_size(info, start, end) ==
    (compute_bitrate(info) * Max(end - start, 0)) \div (8 * TicksPerSec)

\* ----------------------------------------------------- auto_split_segment
\* The first use of a cached map that is empty indexes out of bounds.
auto_split_panics(max_bytes, has_map, bitrate_map) ==
    max_bytes # 0 /\ has_map /\ is_empty(bitrate_map)

RECURSIVE SplitByMap(_, _, _, _, _, _)
SplitByMap(cursor, result, segment, effective_max, bm, fuel) ==
    IF ~(cursor < segment.end_time - TenthSec) \/ fuel = 0 THEN result
    ELSE
      LET walked == Min(time_for_bytes(bm, cursor, effective_max), segment.end_time)
          cut == IF walked <= cursor + HalfSec
                 THEN Min(cursor + OneSec, segment.end_time)
                 ELSE walked
          end == IF segment.end_time - cut < OneSec THEN segment.end_time ELSE cut
          sub == [start_time |-> cursor, end_time |-> end,
                  label |-> <<segment.label, Len(result) + 1, 0>>,
                  enabled |-> segment.enabled,
                  estimated_size_bytes |-> bytes_between(bm, cursor, end)]
      IN IF end >= segment.end_time - TenthSec
         THEN Append(result, sub)
         ELSE SplitByMap(end, Append(result, sub), segment, effective_max, bm, fuel - 1)

\* (total_duration / max_duration).ceil() as usize; dividing by a zero
\* max_duration gives infinity, which the loop bound cuts off.
NumParts(total_duration, effective_max, bitrate_bps) ==
    IF effective_max = 0 THEN MaxLoop
    ELSE LET d == effective_max * 8 * TicksPerSec
         IN Min(Max((total_duration * bitrate_bps + d - 1) \div d, 0), MaxLoop)

SplitUniform(segment, effective_max, bitrate_bps) ==
    LET num_parts == NumParts(SegmentDuration(segment), effective_max, bitrate_bps)
        Offset(i) == (i * effective_max * 8 * TicksPerSec) \div bitrate_bps
        Start(i) == segment.start_time + Offset(i - 1)
        End(i) == Min(segment.start_time + Offset(i), segment.end_time)
    IN [i \in 1..num_parts |->
          [start_time |-> Start(i), end_time |-> End(i),
           label |-> <<segment.label, i, num_parts>>,
           enabled |-> segment.enabled,
           estimated_size_bytes |->
               Max((bitrate_bps * (End(i) - Start(i))) \div (8 * TicksPerSec), 0)]]

\* Variant that tests the size against the budget less its 2% margin.
auto_split_segment_by_effective_max(segment, max_bytes, bitrate_bps, has_map, bitrate_map) ==
    IF max_bytes = 0 THEN <<segment>>
    ELSE
      LET real_size ==
            IF has_map
            THEN bytes_between(bitrate_map, segment.start_time, segment.end_time)
            ELSE segment.estimated_size_bytes
      IN
      IF real_size <= EffectiveMax(max_bytes) THEN <<segment>>
      ELSE IF has_map
      THEN LET cuts == SplitByMap(segment.start_time, <<>>, segment,
                                  EffectiveMax(max_bytes), bitrate_map, MaxLoop)
           IN [i \in 1..Len(cuts) |->
                 [cuts[i] EXCEPT !.label = <<segment.label, i, Len(cuts)>>]]
      ELSE IF bitrate_bps <= 0 THEN <<segment>>
      ELSE SplitUniform(segment, EffectiveMax(max_bytes), bitrate_bps)

auto_split_segment(segment, max_bytes, bitrate_bps, has_map, bitrate_map) ==
    IF max_bytes = 0 THEN <<segment>>
    ELSE
      LET real_size ==
            IF has_map
            THEN bytes_between(bitrate_map, segment.start_time, segment.end_time)
            ELSE segment.estimated_size_bytes
      IN
      IF real_size <= max_bytes THEN <<segment>>
      ELSE IF has_map
      THEN LET cuts == SplitByMap(segment.start_time, <<>>, segment,
                                  EffectiveMax(max_bytes), bitrate_map, MaxLoop)
           IN [i \in 1..Len(cuts) |->
                 [cuts[i] EXCEPT !.label = <<segment.label, i, Len(cuts)>>]]
      ELSE IF bitrate_bps <= 0 THEN <<segment>>
      ELSE SplitUniform(segment, EffectiveMax(max_bytes), bitrate_bps)

\* --------------------------------------------------- extract_bitrate_map
\* packets: the (pts_time, size) rows of the video and of the audio stream.
BucketBytes(packets, sec, num_seconds) ==
    LET Mine == {k \in 1..Len(packets) :
                    Min(FloorSec(packets[k][1]), Max(num_seconds - 1, 0)) = sec}
        RECURSIVE Sum(_)
        Sum(S) == IF S = {} THEN 0
                  ELSE LET k == CHOOSE x \in S : TRUE
                       IN packets[k][2] + Sum(S \ {k})
    IN Sum(Mine)

RECURSIVE Cumulative(_, _, _)
Cumulative(packets, i, num_seconds) ==
    IF i = 0 THEN 0
    ELSE Cumulative(packets, i - 1, num_seconds)
            + BucketBytes(packets, i - 1, num_seconds)

\* run_ok is FALSE when the packet analyzer cannot be started.
extract_bitrate_map(packets, duration, run_ok) ==
    IF ~run_ok THEN [cumulative_bytes |-> <<>>, duration |-> duration]
    ELSE
      LET num_seconds == CeilSec(duration) + 1
      IN [cumulative_bytes |->
              [i \in 1..num_seconds |-> Cumulative(packets, i - 1, num_seconds)],
          duration |-> duration]

\* ------------------------------------------------------ media on disk
\* What probing and analysing each path yields.  Path 1 is a 6 s file with a
\* front-loaded variable bitrate and one silence, the others 3 s files of
\* constant bitrate without bitrate metadata.
Paths == 1..NumPaths

Info(p) ==
    IF p = 1
    THEN [duration |-> Secs(6), video_bitrate |-> 80,
          audio_bitrate |-> NoBitrate, file_size |-> 60]
    ELSE [duration |-> Secs(3), video_bitrate |-> NoBitrate,
          audio_bitrate |-> NoBitrate, file_size |-> 30]

Silences(p) ==
    IF p = 1 THEN << [start |-> Secs(4), end |-> Secs(5)] >> ELSE <<>>

Packets(p) ==
    IF p = 1
    THEN << <<0, 30>>, <<Secs(1), 10>>, <<Secs(2), 5>>, <<Secs(3), 5>>,
            <<Secs(4), 5>>, <<Secs(5), 5>> >>
    ELSE << <<0, 10>>, <<Secs(1), 10>>, <<Secs(2), 10>> >>

\* Outcome of MediaPlayer::new on the path: the second file cannot be played.
PlayerLoads(p) == p # 2

\* Values of the max-size setting the user picks: none, or 50 bytes.
MaxSizeChoices == {0, 50}

\* tolerance_secs passed by poll_auto_cut and poll_batch.
Tolerance == Secs(30)

\* ------------------------------------------------------- Option, HashMap
None == <<"None">>
Some(v) == <<"Some", v>>
NoIndex == 0

EmptyMap == <<>>
MapPut(m, k, v) == [x \in (DOMAIN m) \cup {k} |-> IF x = k THEN v ELSE m[x]]
MapRemove(m, k) == [x \in (DOMAIN m) \ {k} |-> m[x]]
MapGetOr(m, k, default) == IF k \in DOMAIN m THEN m[k] ELSE default

RemoveAt(q, i) == [k \in 1..(Len(q) - 1) |-> IF k < i THEN q[k] ELSE q[k + 1]]

\* ------------------------------------------------- FFmpegApp: selection
\* selected_file(): the selected position when it is within files.
selected_file(fs, sel) == IF sel # NoIndex /\ sel <= Len(fs) THEN sel ELSE NoIndex

save_current_segments(fs, sel, segs, fsegs) ==
    IF selected_file(fs, sel) # NoIndex THEN MapPut(fsegs, fs[sel], segs) ELSE fsegs

restore_segments_for_current_file(fs, sel, segs, fsegs) ==
    IF selected_file(fs, sel) # NoIndex /\ fs[sel] \in DOMAIN fsegs
    THEN fsegs[fs[sel]]
    ELSE segs

\* load_player_for_selected_file: <<player, segments>> afterwards.
load_player_for_selected_file(fs, sel, pl, segs, fsegs) ==
    IF selected_file(fs, sel) = NoIndex THEN <<pl, segs>>
    ELSE IF PlayerLoads(fs[sel]) THEN <<TRUE, MapGetOr(fsegs, fs[sel], <<>>)>>
    ELSE <<FALSE, segs>>

\* Segment list built from cut points: "Segment i", with the size taken from
\* the bitrate map when `sized_by_map`, else estimated from the MediaInfo.
SegmentsFromCuts(cut_points, info, sized_by_map, bitrate_map) ==
    [i \in 1..Len(cut_points) |->
        [NewSegment(cut_points[i][1], cut_points[i][2], <<"Segment", i>>)
            EXCEPT !.estimated_size_bytes =
                IF sized_by_map
                THEN bytes_between(bitrate_map, cut_points[i][1], cut_points[i][2])
                ELSE estimate_segment_size(info, cut_points[i][1], cut_points[i][2])]]

\* --------------------------------------------------------------- Init
\* FFmpegApp::new: empty queue, empty project, nothing running.
ProgramInit ==
    /\ jobs = <<>>
    /\ next_id = 0
    /\ is_processing = FALSE
    /\ uiPc = "idle"
    /\ workers = {}
    /\ returned = <<>>
    /\ dispatched = <<>>
    /\ files = <<>>
    /\ selected_file_index = NoIndex
    /\ player = FALSE
    /\ segments = <<>>
    /\ file_segments = EmptyMap
    /\ bitrate_maps = EmptyMap
    /\ max_size = 0
    /\ files_added = 0
    /\ auto_cut_running = FALSE
    /\ auto_cut_silences = None
    /\ auto_cut_bitrate_map = None
    /\ autoTasks = {}
    /\ auto_starts = 0
    /\ batch_running = FALSE
    /\ batch_status = <<>>
    /\ batch_total = 0
    /\ batch_results = <<>>
    /\ batch_auto_export = FALSE
    /\ batchTasks = {}
    /\ batch_run = 0
    /\ batch_mode = "none"
    /\ exports_of_batch = 0
    /\ crashed = FALSE

Init ==
    /\ ProgramInit
    /\ fn = "none"
    /\ call = <<>>
    /\ ret = <<>>

\* ---------------------------------------------- UI thread: queue mutators
\* The id counter is a u32; the bound keeps it far from wrap-around.
AddJob(job) ==
    /\ uiPc = "idle"
    /\ next_id < MaxJobs
    /\ jobs' = Append(jobs, job)
    /\ next_id' = next_id + 1
    /\ returned' = Append(returned, job.id)
    /\ UNCHANGED <<is_processing, uiPc, workers, dispatched>>
    /\ UNCHANGED appVars

\* Variant: takes the id from the queue length instead of the counter.
add_trim_reuses_id == AddJob(new_trim(Len(jobs), 1, 0, TicksPerSec))

add_trim == AddJob(new_trim(next_id, 1, 0, TicksPerSec))

add_trim_with_label ==
    AddJob(new_trim_with_label(next_id, 1, 0, TicksPerSec, <<"Segment", 1>>))

add_concat == AddJob(new_concat(next_id, <<1, 2>>, <<"Merge", 2>>))

\* Variant: cancelling also "stops processing" by clearing the flag.
cancel_exports_clears_flag ==
    /\ uiPc = "idle"
    /\ jobs' = cancel_all(jobs)
    /\ is_processing' = FALSE
    /\ UNCHANGED <<next_id, uiPc, workers, returned, dispatched>>
    /\ UNCHANGED appVars

cancel_exports ==
    /\ uiPc = "idle"
    /\ jobs' = cancel_all(jobs)
    /\ UNCHANGED <<next_id, is_processing, uiPc, workers, returned, dispatched>>
    /\ UNCHANGED appVars

clear_finished_jobs ==
    /\ uiPc = "idle"
    /\ jobs' = clear_finished(jobs)
    /\ UNCHANGED <<next_id, is_processing, uiPc, workers, returned, dispatched>>
    /\ UNCHANGED appVars

\* The "x" button of a row of the queue panel: any job shown can be removed.
RemoveJobClicked ==
    /\ uiPc = "idle"
    /\ \E i \in Indices(jobs) : jobs' = remove_job(jobs, jobs[i].id)
    /\ UNCHANGED <<next_id, is_processing, uiPc, workers, returned, dispatched>>
    /\ UNCHANGED appVars

\* ------------------------------------------------ process_queue, step 1
\* First lock acquisition: returns early (no state change) when a job is in
\* flight or nothing is pending; otherwise goes on to the second acquisition.
\* Variant: the early return does not look at is_processing.
CanDispatch_ignores_flag(q, flag) == has_pending(q)

CanDispatch(q, flag) == ~flag /\ has_pending(q)

process_queue_check ==
    /\ uiPc = "idle"
    /\ CanDispatch(jobs, is_processing)
    /\ uiPc' = "dispatch"
    /\ UNCHANGED <<jobs, next_id, is_processing, workers, returned, dispatched>>
    /\ UNCHANGED appVars

\* ------------------------------------------------ process_queue, step 2
\* Second lock acquisition: sets the flag, marks the first Pending job
\* Running and spawns its transcode task; resets the flag if none is left.
process_queue_dispatch ==
    /\ uiPc = "dispatch"
    /\ uiPc' = "idle"
    /\ LET i == next_pending(jobs) IN
         IF i # 0
         THEN /\ jobs' = [jobs EXCEPT ![i].status = Running]
              /\ is_processing' = TRUE
              /\ workers' = workers \cup {jobs[i].id}
              /\ dispatched' = Append(dispatched, jobs[i].id)
         ELSE /\ is_processing' = FALSE
              /\ UNCHANGED <<jobs, workers, dispatched>>
    /\ UNCHANGED <<next_id, returned>>
    /\ UNCHANGED appVars

\* ------------------------------------------- spawned task: completion
\* The transcode has returned `result`; under the lock the task records it on
\* the job it captured (if that id is still in the queue) and clears the flag.
RecordResult(q, id, result) ==
    LET i == get_job_mut(q, id) IN
    IF i = 0 THEN q
    ELSE IF result = "Ok"
         THEN [q EXCEPT ![i].status = Completed, ![i].progress = 1]
         ELSE [q EXCEPT ![i].status = Failed(result)]

\* Variant: the flag is cleared only when the job was still in the queue.
worker_complete_keeps_flag_if_removed ==
    \E id \in workers, result \in {"Ok"} \cup TranscodeErrors :
        /\ jobs' = RecordResult(jobs, id, result)
        /\ is_processing' = (is_processing /\ get_job_mut(jobs, id) = 0)
        /\ workers' = workers \ {id}
        /\ UNCHANGED <<next_id, uiPc, returned, dispatched>>
        /\ UNCHANGED appVars

worker_complete ==
    \E id \in workers, result \in {"Ok"} \cup TranscodeErrors :
        /\ jobs' = RecordResult(jobs, id, result)
        /\ is_processing' = FALSE
        /\ workers' = workers \ {id}
        /\ UNCHANGED <<next_id, uiPc, returned, dispatched>>
        /\ UNCHANGED appVars

\* ------------------------------------------------ UI thread: the project
UiReady == uiPc = "idle" /\ ~crashed

\* add_files with one path (probe succeeded).  merge_file_order, the
\* waveform cache and the status texts are not part of the model.
add_files ==
    /\ UiReady
    /\ files_added < MaxFiles
    /\ files_added' = files_added + 1
    /\ \E p \in Paths :
        LET fs == Append(files, p)
            first == selected_file_index = NoIndex
            sel == IF first THEN 1 ELSE selected_file_index
            loaded == IF first
                      THEN load_player_for_selected_file(fs, sel, player, segments,
                                                         file_segments)
                      ELSE <<player, segments>>
        IN /\ files' = fs
           /\ selected_file_index' = sel
           /\ player' = loaded[1]
           /\ segments' = loaded[2]
    /\ UNCHANGED <<file_segments, bitrate_maps, max_size>>
    /\ UNCHANGED <<queueVars, autoCutVars, batchVars, crashed, fnVars>>

select_file ==
    /\ UiReady
    /\ \E index \in 1..Len(files) :
        LET saved == save_current_segments(files, selected_file_index, segments,
                                           file_segments)
            loaded == load_player_for_selected_file(files, index, player, segments,
                                                    saved)
        IN /\ file_segments' = saved
           /\ selected_file_index' = index
           /\ player' = loaded[1]
           /\ segments' = loaded[2]
    /\ UNCHANGED <<files, bitrate_maps, max_size, files_added>>
    /\ UNCHANGED <<queueVars, autoCutVars, batchVars, crashed, fnVars>>

remove_file_at ==
    /\ UiReady
    /\ \E index \in 1..Len(files) :
        LET path == files[index]
            fsegs == MapRemove(file_segments, path)
            was_selected == selected_file_index = index
            pl1 == IF was_selected THEN FALSE ELSE player
            segs1 == IF was_selected THEN <<>> ELSE segments
            fs == RemoveAt(files, index)
            sel == IF fs = <<>> THEN NoIndex
                   ELSE IF selected_file_index = NoIndex THEN NoIndex
                   ELSE IF selected_file_index > Len(fs) THEN Len(fs)
                   ELSE IF index < selected_file_index THEN selected_file_index - 1
                   ELSE selected_file_index
            loaded == IF sel # NoIndex /\ ~pl1
                      THEN load_player_for_selected_file(fs, sel, pl1, segs1, fsegs)
                      ELSE <<pl1, segs1>>
        IN /\ files' = fs
           /\ file_segments' = fsegs
           /\ bitrate_maps' = MapRemove(bitrate_maps, path)
           /\ selected_file_index' = sel
           /\ player' = loaded[1]
           /\ segments' = loaded[2]
    /\ UNCHANGED <<max_size, files_added>>
    /\ UNCHANGED <<queueVars, autoCutVars, batchVars, crashed, fnVars>>

\* The settings panel writes split_settings.max_size_mb.
set_max_size ==
    /\ UiReady
    /\ \E m \in MaxSizeChoices : m # max_size /\ max_size' = m
    /\ UNCHANGED <<files, selected_file_index, player, segments, file_segments,
                   bitrate_maps, files_added>>
    /\ UNCHANGED <<queueVars, autoCutVars, batchVars, crashed, fnVars>>

\* --------------------------------------------------- single-file auto-cut
\* start_auto_cut past its two rejections (which only set the status text).
start_auto_cut ==
    /\ UiReady
    /\ auto_starts < MaxAutoStarts
    /\ selected_file(files, selected_file_index) # NoIndex
    /\ max_size > 0
    /\ auto_cut_silences' = None
    /\ auto_cut_bitrate_map' = None
    /\ auto_cut_running' = TRUE
    /\ auto_starts' = auto_starts + 1
    /\ autoTasks' = autoTasks \cup
            {[kind |-> k, path |-> files[selected_file_index], run |-> auto_starts + 1] :
                k \in {"silence", "bitrate"}}
    /\ UNCHANGED <<queueVars, projectVars, batchVars, crashed, fnVars>>

\* The tokio task: detect_silence(..).unwrap_or_default() into the slot.
auto_silence_done ==
    \E t \in autoTasks : \E detected \in {Silences(t.path), <<>>} :
        /\ t.kind = "silence"
        /\ auto_cut_silences' = Some(detected)
        /\ autoTasks' = autoTasks \ {t}
        /\ UNCHANGED <<auto_cut_running, auto_cut_bitrate_map, auto_starts>>
        /\ UNCHANGED <<queueVars, projectVars, batchVars, crashed, fnVars>>

\* The thread: extract_bitrate_map(path, duration) into the slot.
auto_bitrate_done ==
    \E t \in autoTasks, run_ok \in BOOLEAN :
        /\ t.kind = "bitrate"
        /\ auto_cut_bitrate_map' =
                Some(extract_bitrate_map(Packets(t.path), Info(t.path).duration, run_ok))
        /\ autoTasks' = autoTasks \ {t}
        /\ UNCHANGED <<auto_cut_running, auto_cut_silences, auto_starts>>
        /\ UNCHANGED <<queueVars, projectVars, batchVars, crashed, fnVars>>

\* poll_auto_cut once both slots are filled (before that it only updates
\* the status text).
poll_auto_cut ==
    /\ UiReady
    /\ auto_cut_running
    /\ auto_cut_silences[1] = "Some"
    /\ auto_cut_bitrate_map[1] = "Some"
    /\ auto_cut_silences' = None
    /\ auto_cut_bitrate_map' = None
    /\ auto_cut_running' = FALSE
    /\ LET silences == auto_cut_silences[2]
           bitrate_map == auto_cut_bitrate_map[2]
       IN IF selected_file(files, selected_file_index) = NoIndex
          THEN UNCHANGED <<segments, bitrate_maps, file_segments>>
          ELSE
            LET file_path == files[selected_file_index]
                info == Info(file_path)
                cut_points ==
                    IF ~is_empty(bitrate_map)
                    THEN compute_cut_points_accurate(info.duration, max_size,
                                                     Tolerance, silences, bitrate_map)
                    ELSE compute_cut_points(info.duration, compute_bitrate(info),
                                            max_size, Tolerance, silences)
                segs == SegmentsFromCuts(cut_points, info, ~is_empty(bitrate_map),
                                         bitrate_map)
            IN /\ segments' = segs
               /\ bitrate_maps' = MapPut(bitrate_maps, file_path, bitrate_map)
               /\ file_segments' = MapPut(file_segments, file_path, segs)
    /\ UNCHANGED <<files, selected_file_index, player, max_size, files_added>>
    /\ UNCHANGED <<autoTasks, auto_starts>>
    /\ UNCHANGED <<queueVars, batchVars, crashed, fnVars>>

\* ------------------------------------------------------ export_all_files
RECURSIVE SplitAll(_, _, _, _, _)
SplitAll(enabled, max_size_bytes, bitrate_bps, has_map, bm) ==
    IF enabled = <<>> THEN <<>>
    ELSE (IF max_size_bytes > 0
          THEN auto_split_segment(Head(enabled), max_size_bytes, bitrate_bps, has_map, bm)
          ELSE <<Head(enabled)>>)
         \o SplitAll(Tail(enabled), max_size_bytes, bitrate_bps, has_map, bm)

\* queue.add_trim_with_label for each final segment of one file.
RECURSIVE QueueSegments(_, _, _, _)
QueueSegments(q, id, path, final_segments) ==
    IF final_segments = <<>> THEN q
    ELSE QueueSegments(
            Append(q, new_trim_with_label(id, path, Head(final_segments).start_time,
                                          Head(final_segments).end_time,
                                          <<path, Head(final_segments).label>>)),
            id + 1, path, Tail(final_segments))

IsEnabled(seg) == seg.enabled

\* The loop over project.files from position i on.  acc = [jobs, next_id,
\* outcome]; fail_at is the position whose create_dir_all fails (0: none).
RECURSIVE ExportFiles(_, _, _, _, _, _, _)
ExportFiles(i, acc, fs, fsegs, bmaps, max_size_bytes, fail_at) ==
    IF i > Len(fs) THEN acc
    ELSE
      LET path == fs[i]
          enabled == IF path \in DOMAIN fsegs
                     THEN SelectSeq(fsegs[path], IsEnabled) ELSE <<>>
          has_map == path \in DOMAIN bmaps
          bm == IF has_map THEN bmaps[path] ELSE [cumulative_bytes |-> <<>>, duration |-> 0]
      IN
      IF enabled = <<>>
      THEN ExportFiles(i + 1, acc, fs, fsegs, bmaps, max_size_bytes, fail_at)
      ELSE IF i = fail_at THEN [acc EXCEPT !.outcome = "dir_error"]
      ELSE IF auto_split_panics(max_size_bytes, has_map, bm)
      THEN [acc EXCEPT !.outcome = "panic"]
      ELSE
        LET final_segments == SplitAll(enabled, max_size_bytes,
                                       compute_bitrate(Info(path)), has_map, bm)
        IN ExportFiles(i + 1,
                       [jobs |-> QueueSegments(acc.jobs, acc.next_id, path, final_segments),
                        next_id |-> acc.next_id + Len(final_segments),
                        outcome |-> acc.outcome],
                       fs, fsegs, bmaps, max_size_bytes, fail_at)

\* export_all_files on a state in which save_current_segments has given fsegs.
export_all_files(fs, fsegs, bmaps, max, q, id, fail_at) ==
    ExportFiles(1, [jobs |-> q, next_id |-> id, outcome |-> "done"], fs, fsegs, bmaps,
                IF max > 0 THEN max ELSE 0, fail_at)

\* ------------------------------------------------------------------ batch
\* start_batch_auto_cut is rejected without files or without a max size.
BatchAccepted == files # <<>> /\ max_size > 0

\* start_batch_auto_cut past the rejections: a new results Vec, one
\* detection task per file.  The tasks of an earlier launch still in flight
\* push to the Vec that launch created, which nothing reads any more; they
\* are no longer tracked.
LaunchBatch(mode) ==
    /\ batch_run < MaxBatchStarts
    /\ file_segments' = save_current_segments(files, selected_file_index, segments,
                                               file_segments)
    /\ batch_total' = Len(files)
    /\ batch_running' = TRUE
    /\ batch_results' = <<>>
    /\ batch_status' = <<"Analyzing", 0, Len(files)>>
    /\ batch_run' = batch_run + 1
    /\ batchTasks' = {[idx |-> i, path |-> files[i]] : i \in 1..Len(files)}
    /\ batch_mode' = mode
    /\ exports_of_batch' = 0
    /\ UNCHANGED <<files, selected_file_index, player, segments, bitrate_maps, max_size,
                   files_added>>
    /\ UNCHANGED <<queueVars, autoCutVars, crashed, fnVars>>

start_batch_auto_cut ==
    /\ UiReady
    /\ BatchAccepted
    /\ LaunchBatch("plain")
    /\ UNCHANGED batch_auto_export

\* Variant: launches the batch without setting the one-shot flag.
batch_process_and_export_forgets_flag ==
    /\ UiReady
    /\ UNCHANGED batch_auto_export
    /\ IF BatchAccepted
       THEN LaunchBatch("export")
       ELSE /\ UNCHANGED <<batch_running, batch_status, batch_total, batch_results,
                           batchTasks, batch_run, batch_mode, exports_of_batch>>
            /\ UNCHANGED <<queueVars, projectVars, autoCutVars, crashed, fnVars>>

batch_process_and_export ==
    /\ UiReady
    /\ batch_auto_export' = TRUE
    /\ IF BatchAccepted
       THEN LaunchBatch("export")
       ELSE /\ UNCHANGED <<batch_running, batch_status, batch_total, batch_results,
                           batchTasks, batch_run, batch_mode, exports_of_batch>>
            /\ UNCHANGED <<queueVars, projectVars, autoCutVars, crashed, fnVars>>

\* A detection task pushes (idx, silences) to the results Vec it was given.
\* The third component is history: the path the silences were detected on.
batch_detection_done ==
    \E t \in batchTasks : \E detected \in {Silences(t.path), <<>>} :
        /\ batchTasks' = batchTasks \ {t}
        /\ batch_results' = Append(batch_results, <<t.idx, detected, t.path>>)
        /\ UNCHANGED <<batch_running, batch_status, batch_total, batch_auto_export,
                       batch_run, batch_mode, exports_of_batch>>
        /\ UNCHANGED <<queueVars, projectVars, autoCutVars, crashed, fnVars>>

\* The planner poll_batch runs for one result.
BatchCutPoints(info, max_bytes, silences, bmaps, path) ==
    compute_cut_points(info.duration, compute_bitrate(info), max_bytes, Tolerance,
                       silences)

\* The loop over the results: [fsegs, total] after the results from k on.
RECURSIVE AggregateResults(_, _, _, _, _)
AggregateResults(results, fs, acc, max_bytes, bmaps) ==
    IF results = <<>> THEN acc
    ELSE
      LET file_idx == Head(results)[1]
          silences == Head(results)[2]
      IN
      IF file_idx > Len(fs)
      THEN AggregateResults(Tail(results), fs, acc, max_bytes, bmaps)
      ELSE
        LET path == fs[file_idx]
            info == Info(path)
            segs == SegmentsFromCuts(
                        BatchCutPoints(info, max_bytes, silences, bmaps, path),
                        info, FALSE, <<>>)
        IN AggregateResults(Tail(results), fs,
                            [fsegs |-> MapPut(acc.fsegs, path, segs),
                             total |-> acc.total + Len(segs)],
                            max_bytes, bmaps)

\* Variant: waits only for the first result.
BatchStillRunning_until_first(completed, total) == completed < 1

\* completed < self.batch_total
BatchStillRunning(completed, total) == completed < total

\* poll_batch, called each frame; it returns at once unless a batch runs.
poll_batch ==
    /\ UiReady
    /\ batch_running
    /\ LET completed == Len(batch_results) IN
       IF BatchStillRunning(completed, batch_total)
       THEN /\ batch_status' = <<"Analyzing", completed, batch_total>>
            /\ UNCHANGED <<batch_running, batch_total, batch_results, batch_auto_export,
                           batchTasks, batch_run, batch_mode, exports_of_batch>>
            /\ UNCHANGED <<queueVars, projectVars, autoCutVars, crashed, fnVars>>
       ELSE
         LET agg == AggregateResults(batch_results, files,
                                     [fsegs |-> file_segments, total |-> 0],
                                     max_size, bitrate_maps)
             restored == restore_segments_for_current_file(files, selected_file_index,
                                                           segments, agg.fsegs)
         IN
         /\ batch_running' = FALSE
         /\ batch_results' = <<>>
         /\ batch_status' = <<"Batch done", batch_total, agg.total>>
         /\ segments' = restored
         /\ batch_auto_export' = FALSE
         /\ IF batch_auto_export
            THEN \E fail_at \in 0..Len(files) :
                   LET saved == save_current_segments(files, selected_file_index,
                                                      restored, agg.fsegs)
                       out == export_all_files(files, saved, bitrate_maps, max_size,
                                               jobs, next_id, fail_at)
                   IN /\ file_segments' = saved
                      /\ jobs' = out.jobs
                      /\ next_id' = out.next_id
                      /\ returned' = returned \o
                             [k \in 1..(out.next_id - next_id) |-> next_id + k - 1]
                      /\ crashed' = (out.outcome = "panic")
                      /\ exports_of_batch' = exports_of_batch + 1
            ELSE /\ file_segments' = agg.fsegs
                 /\ UNCHANGED <<jobs, next_id, returned, crashed, exports_of_batch>>
         /\ UNCHANGED <<is_processing, uiPc, workers, dispatched>>
         /\ UNCHANGED <<files, selected_file_index, player, bitrate_maps, max_size,
                        files_added>>
         /\ UNCHANGED <<batch_total, batchTasks, batch_run, batch_mode>>
         /\ UNCHANGED <<autoCutVars, fnVars>>

\* ----------------------------------------------------------------- Next
Next ==
    \/ add_trim
    \/ add_trim_with_label
    \/ add_concat
    \/ cancel_exports
    \/ clear_finished_jobs
    \/ RemoveJobClicked
    \/ process_queue_check
    \/ process_queue_dispatch
    \/ worker_complete

Spec == Init /\ [][Next]_vars

\* Scheduling: update() calls process_queue on every frame and keeps
\* requesting repaints while is_processing or has_pending() holds, and the
\* tokio runtime runs every spawned task once its transcode has returned.
FairSpec ==
    /\ Spec
    /\ WF_vars(process_queue_check)
    /\ WF_vars(process_queue_dispatch)
    /\ WF_vars(worker_complete)

\* The batch operations and their detection tasks, with the project
\* operations a user can perform while a batch runs.
BatchNext ==
    \/ add_files
    \/ select_file
    \/ remove_file_at
    \/ set_max_size
    \/ start_batch_auto_cut
    \/ batch_process_and_export
    \/ batch_detection_done
    \/ poll_batch

BatchSpec == Init /\ [][BatchNext]_vars

\* Single-file auto-cut and batch together: the batch runs over files whose
\* bitrate maps an earlier auto-cut may have cached.  The auto-cut is started
\* at most MaxAnalysisStarts times here.
MaxAnalysisStarts == 1

AnalysisNext ==
    \/ add_files
    \/ set_max_size
    \/ (auto_starts < MaxAnalysisStarts /\ start_auto_cut)
    \/ auto_silence_done
    \/ auto_bitrate_done
    \/ poll_auto_cut
    \/ start_batch_auto_cut
    \/ batch_process_and_export
    \/ batch_detection_done
    \/ poll_batch

AnalysisSpec == Init /\ [][AnalysisNext]_vars

\* ------------------------------------------------- editing and exporting
\* Most segments the active list is let grow to by split_segment_at, and
\* most jobs an accepted export may bring the queue counter to.
MaxSegments == 2
MaxQueued == 1

\* Playhead times at which the user splits.
SplitTimes == {0, Secs(1)}

\* IN and OUT points the user has set when add_segment is called; the
\* second pair is not a valid one.
InOutPoints == { <<0, Secs(3)>>, <<Secs(3), Secs(3)>> }

\* add_segment with in_point and out_point as the user has set them.
add_segment ==
    /\ UiReady
    /\ \E pts \in InOutPoints :
        IF ~(pts[2] > pts[1]) THEN UNCHANGED segments
        ELSE
          LET sel == selected_file(files, selected_file_index)
              segment == NewSegment(pts[1], pts[2], <<"Segment", Len(segments) + 1>>)
          IN /\ Len(segments) < MaxSegments
             /\ segments' = Append(segments,
                    IF sel = NoIndex THEN segment
                    ELSE [segment EXCEPT !.estimated_size_bytes =
                            estimate_segment_size(Info(files[sel]), pts[1], pts[2])])
    /\ UNCHANGED <<files, selected_file_index, player, file_segments, bitrate_maps,
                   max_size, files_added>>
    /\ UNCHANGED <<queueVars, autoCutVars, batchVars, crashed, fnVars>>

\* "Segment {i + 1}" for every segment of the list.
Relabel(segs) == [i \in 1..Len(segs) |-> [segs[i] EXCEPT !.label = <<"Segment", i>>]]

remove_segment ==
    /\ UiReady
    /\ \E index \in 1..(Len(segments) + 1) :
        IF index > Len(segments) THEN UNCHANGED segments
        ELSE segments' = Relabel(RemoveAt(segments, index))
    /\ UNCHANGED <<files, selected_file_index, player, file_segments, bitrate_maps,
                   max_size, files_added>>
    /\ UNCHANGED <<queueVars, autoCutVars, batchVars, crashed, fnVars>>

\* The sizes split_segment_at writes back: from the cached map of the
\* selected file, else estimated; untouched without a selected file.
Resize(segs) ==
    LET sel == selected_file(files, selected_file_index) IN
    IF sel = NoIndex THEN segs
    ELSE [i \in 1..Len(segs) |->
            [segs[i] EXCEPT !.estimated_size_bytes =
                IF files[sel] \in DOMAIN bitrate_maps
                THEN bytes_between(bitrate_maps[files[sel]], segs[i].start_time,
                                   segs[i].end_time)
                ELSE estimate_segment_size(Info(files[sel]), segs[i].start_time,
                                           segs[i].end_time)]]

\* The request is turned down: index out of range, or time not strictly
\* inside the segment.
SplitRejected(index, time) ==
    \/ index > Len(segments)
    \/ time <= segments[index].start_time
    \/ time >= segments[index].end_time

\* split_segment_at(index, time).
SplitAt(index, time) ==
    /\ UiReady
    /\ IF SplitRejected(index, time)
       THEN UNCHANGED <<segments, crashed>>
       ELSE
         LET seg == segments[index]
             halves == << NewSegment(seg.start_time, time, <<>>),
                          NewSegment(time, seg.end_time, <<>>) >>
             spliced == SubSeq(segments, 1, index - 1) \o halves
                           \o SubSeq(segments, index + 1, Len(segments))
             sel == selected_file(files, selected_file_index)
         IN /\ Len(segments) < MaxSegments
            /\ crashed' = (/\ sel # NoIndex
                           /\ files[sel] \in DOMAIN bitrate_maps
                           /\ is_empty(bitrate_maps[files[sel]]))
            /\ segments' = IF crashed' THEN Relabel(spliced)
                           ELSE Resize(Relabel(spliced))
    /\ UNCHANGED <<files, selected_file_index, player, file_segments, bitrate_maps,
                   max_size, files_added>>
    /\ UNCHANGED <<queueVars, autoCutVars, batchVars, fnVars>>

split_segment_at ==
    \E index \in 1..(Len(segments) + 1), time \in SplitTimes : SplitAt(index, time)

\* queue.add_trim_with_label for each final segment, labelled as the segment:
\* the label carries no file stem, which the 0 in its place stands for.
RECURSIVE QueueLabelled(_, _, _, _)
QueueLabelled(q, id, path, final_segments) ==
    IF final_segments = <<>> THEN q
    ELSE QueueLabelled(
            Append(q, new_trim_with_label(id, path, Head(final_segments).start_time,
                                          Head(final_segments).end_time,
                                          <<0, Head(final_segments).label>>)),
            id + 1, path, Tail(final_segments))

\* export_all is turned down: no file selected, or no enabled segment.
ExportRejected ==
    \/ selected_file(files, selected_file_index) = NoIndex
    \/ SelectSeq(segments, IsEnabled) = <<>>

\* dir_ok: create_dir_all on the output folder succeeds.
export_all ==
    /\ UiReady
    /\ IF ExportRejected
       THEN UNCHANGED <<jobs, next_id, returned, crashed>>
       ELSE
         LET path == files[selected_file_index]
             has_map == path \in DOMAIN bitrate_maps
             bm == IF has_map THEN bitrate_maps[path]
                   ELSE [cumulative_bytes |-> <<>>, duration |-> 0]
             max_size_bytes == IF max_size > 0 THEN max_size ELSE 0
         IN
         IF auto_split_panics(max_size_bytes, has_map, bm)
         THEN crashed' = TRUE /\ UNCHANGED <<jobs, next_id, returned>>
         ELSE
           LET final_segments == SplitAll(SelectSeq(segments, IsEnabled), max_size_bytes,
                                          compute_bitrate(Info(path)), has_map, bm)
           IN \E dir_ok \in BOOLEAN :
                IF ~dir_ok THEN UNCHANGED <<jobs, next_id, returned, crashed>>
                ELSE /\ next_id + Len(final_segments) <= MaxQueued
                     /\ jobs' = QueueLabelled(jobs, next_id, path, final_segments)
                     /\ next_id' = next_id + Len(final_segments)
                     /\ returned' = returned \o
                            [k \in 1..Len(final_segments) |-> next_id + k - 1]
                     /\ UNCHANGED crashed
    /\ UNCHANGED <<is_processing, uiPc, workers, dispatched>>
    /\ UNCHANGED <<projectVars, autoCutVars, batchVars, fnVars>>

\* No file of the project has an enabled segment stored or active.
NothingToExport ==
    LET saved == save_current_segments(files, selected_file_index, segments,
                                       file_segments)
    IN \A i \in 1..Len(files) :
          files[i] \notin DOMAIN saved \/ SelectSeq(saved[files[i]], IsEnabled) = <<>>

\* The "Export all files" button: export_all_files called by the user.
click_export_all_files ==
    /\ UiReady
    /\ \E fail_at \in 0..Len(files) :
        LET saved == save_current_segments(files, selected_file_index, segments,
                                           file_segments)
            out == export_all_files(files, saved, bitrate_maps, max_size, jobs,
                                    next_id, fail_at)
        IN /\ out.next_id <= MaxQueued
           /\ file_segments' = saved
           /\ jobs' = out.jobs
           /\ next_id' = out.next_id
           /\ returned' = returned \o
                  [k \in 1..(out.next_id - next_id) |-> next_id + k - 1]
           /\ crashed' = (out.outcome = "panic")
    /\ UNCHANGED <<is_processing, uiPc, workers, dispatched>>
    /\ UNCHANGED <<files, selected_file_index, player, segments, bitrate_maps,
                   max_size, files_added>>
    /\ UNCHANGED <<autoCutVars, batchVars, fnVars>>

\* Loading and selecting files, manual edits of the segments, exports.
EditNext ==
    \/ add_files
    \/ select_file
    \/ set_max_size
    \/ add_segment
    \/ remove_segment
    \/ split_segment_at
    \/ export_all
    \/ click_export_all_files

EditSpec == Init /\ [][EditNext]_vars

\* Single-file auto-cut with the file selection changing under it.
AutoCutNext ==
    \/ add_files
    \/ select_file
    \/ set_max_size
    \/ start_auto_cut
    \/ auto_silence_done
    \/ auto_bitrate_done
    \/ poll_auto_cut

AutoCutSpec == Init /\ [][AutoCutNext]_vars

\* --------------------------------------------------- derived observations
JobIds == 0..(MaxJobs - 1)

InQueue(id) == \E i \in Indices(jobs) : jobs[i].id = id

\* Status of the job with this id, <<"Gone">> once it is not in the queue.
StatusOf(id) ==
    IF InQueue(id) THEN jobs[get_job_mut(jobs, id)].status ELSE <<"Gone">>

RunningJobs == {i \in Indices(jobs) : jobs[i].status = Running}

PosReturned(id) == CHOOSE k \in 1..Len(returned) : returned[k] = id

\* =================================================================== claims

\* C1: in every reachable state of the queue at most one job is Running,
\* whatever the interleaving of the two steps of process_queue, the task
\* completions and the queue mutators.
C1_AtMostOneRunning == Cardinality(RunningJobs) <= 1

\* A job is Running while another one waits and an earlier one has finished.
C1_Witness ==
    /\ Cardinality(RunningJobs) = 1
    /\ has_pending(jobs)
    /\ \E i \in Indices(jobs) : IsTerminal(jobs[i].status)

\* C2: whenever a job in the queue is Running, is_processing is true, and a
\* step that clears the flag while a job is Running is the step in which that
\* job's task records Completed or Failed on it.
C2_RunningKeepsFlag ==
    /\ [](RunningJobs # {} => is_processing)
    /\ [][(is_processing /\ ~is_processing') =>
            \A i \in RunningJobs :
                /\ jobs[i].id \in workers /\ jobs[i].id \notin workers'
                /\ Len(jobs') = Len(jobs)
                /\ IsTerminal(jobs'[i].status)]_vars

\* The flag is still set for a Running job after a cancel_all and a removal.
C2_Witness ==
    /\ RunningJobs # {}
    /\ is_processing
    /\ \E i \in Indices(jobs) : jobs[i].status = Failed("Cancelled")
    /\ Len(jobs) < Len(returned)

\* C3: the job process_queue marks Running is the first job of the queue
\* that is Pending in that step, and jobs reach Running in the order in
\* which they were added.
C3_FifoDispatch ==
    /\ [](\A a, b \in 1..Len(dispatched) :
            a < b => PosReturned(dispatched[a]) < PosReturned(dispatched[b]))
    /\ [][\A i \in Indices(jobs) :
            (/\ jobs[i].status = Pending
             /\ \E k \in Indices(jobs') :
                    jobs'[k].id = jobs[i].id /\ jobs'[k].status = Running)
            => \A k \in 1..(i - 1) : jobs[k].status # Pending]_vars

\* Two jobs were dispatched around one that was added between them and
\* skipped (cancelled or removed).
C3_Witness ==
    /\ Len(dispatched) >= 2
    /\ \E a \in 1..(Len(dispatched) - 1) :
            dispatched[a + 1] > dispatched[a] + 1

\* C4: a job's status only moves Pending -> Running (in the dispatch step of
\* process_queue, for the first Pending job), Running -> Completed/Failed (in
\* the completion step of its own task) or Pending -> Failed("Cancelled") (in
\* a step that leaves no job Pending); Completed and Failed are final.
C4_Allowed(i, k) ==
    LET s == jobs[i].status
        t == jobs'[k].status
    IN \/ t = s
       \/ /\ s = Pending /\ t = Running
          /\ uiPc = "dispatch" /\ uiPc' = "idle"
          /\ \A m \in 1..(i - 1) : jobs[m].status # Pending
       \/ /\ s = Running /\ IsTerminal(t)
          /\ jobs[i].id \in workers /\ jobs[i].id \notin workers'
       \/ /\ s = Pending /\ t = Failed("Cancelled")
          /\ uiPc = "idle"
          /\ \A m \in Indices(jobs') : jobs'[m].status # Pending

C4_StatusMovesForward ==
    [][\A i \in Indices(jobs), k \in Indices(jobs') :
            jobs[i].id = jobs'[k].id => C4_Allowed(i, k)]_vars

\* All four kinds of end state are present in one queue history.
C4_Witness ==
    /\ \E i \in Indices(jobs) : jobs[i].status = Completed
    /\ \E i \in Indices(jobs) : jobs[i].status = Failed("Cancelled")
    /\ \E i \in Indices(jobs) :
            IsFailed(jobs[i].status) /\ jobs[i].status # Failed("Cancelled")

\* C5: a cancel_all step turns exactly the Pending jobs into
\* Failed("Cancelled") and leaves every other job, the job order, the ids,
\* is_processing, the id counter and the running task untouched, so that no
\* job is Pending after it; and a job that is Running when jobs have been
\* cancelled still gets Completed or Failed from its task (as long as it
\* stays in the queue).
C5_CancelFrame ==
    /\ Len(jobs') = Len(jobs)
    /\ \A i \in Indices(jobs) :
            /\ jobs'[i].status # Pending
            /\ jobs[i].status = Pending =>
                    jobs'[i] = [jobs[i] EXCEPT !.status = Failed("Cancelled")]
            /\ jobs[i].status # Pending => jobs'[i] = jobs[i]
    /\ is_processing' = is_processing
    /\ next_id' = next_id
    /\ workers' = workers

C5_CancelAll ==
    /\ [][cancel_exports => C5_CancelFrame]_vars
    /\ \A id \in JobIds :
            (StatusOf(id) = Running
                /\ \E i \in Indices(jobs) : jobs[i].status = Failed("Cancelled"))
            ~> (IsTerminal(StatusOf(id)) \/ ~InQueue(id))

\* Pending jobs were cancelled while another job was Running, and that job
\* has completed since.
C5_Witness ==
    /\ Len(jobs) = 3
    /\ jobs[1].status = Completed
    /\ jobs[2].status = Failed("Cancelled")
    /\ jobs[3].status = Failed("Cancelled")

\* C6: every id returned by an add is greater than all ids returned before,
\* the jobs in the queue carry distinct ids, each one returned by an add, and
\* the counter stays above all of them.
C6_IdsIncrease ==
    /\ \A a, b \in 1..Len(returned) : a < b => returned[a] < returned[b]
    /\ \A i, k \in Indices(jobs) : i # k => jobs[i].id # jobs[k].id
    /\ \A i \in Indices(jobs) :
            /\ \E a \in 1..Len(returned) : returned[a] = jobs[i].id
            /\ jobs[i].id < next_id

\* A job was added after an earlier one had been removed.
C6_Witness ==
    /\ Len(returned) = 3
    /\ Len(jobs) = 1
    /\ jobs[1].id = 2
    /\ jobs[1].status = Pending

\* C7: with process_queue called on every frame and every transcode
\* returning, a Pending job leaves Pending (it is dispatched, cancelled or
\* removed), a Running job gets its terminal status unless it is removed, and
\* is_processing is false again after every dispatch; this does not depend
\* on how earlier jobs ended.
C7_QueueDrains ==
    /\ \A id \in JobIds :
            /\ (StatusOf(id) = Pending) ~>
                    (\/ StatusOf(id) = Running
                     \/ StatusOf(id) = Failed("Cancelled")
                     \/ ~InQueue(id))
            /\ (StatusOf(id) = Running) ~>
                    (IsTerminal(StatusOf(id)) \/ ~InQueue(id))
    /\ is_processing ~> ~is_processing

\* A job completed after an earlier job had failed and another dispatched
\* job had been removed from the queue.
C7_Witness ==
    /\ Len(dispatched) = 3
    /\ ~is_processing
    /\ \E id \in JobIds : id \in {dispatched[1], dispatched[2]} /\ ~InQueue(id)
    /\ \E i \in Indices(jobs) : jobs[i].status = Failed("ffmpeg error")
    /\ \E i \in Indices(jobs) :
            jobs[i].id = dispatched[3] /\ jobs[i].status = Completed

\* ------------------------------------------------- the planners, called
\* Longest duration given to the planners, in ticks.
MaxDurTicks == 130

\* Silence lists given to the planners: none, one in the middle of a short
\* file, one with its midpoint at 3.95 s, one with its midpoint at 4 s, one
\* with its midpoint at 3.25 s, and two.
SilenceLists ==
    { <<>>,
      << [start |-> Secs(2), end |-> Secs(3)] >>,
      << [start |-> Secs(4) - TenthSec, end |-> Secs(4)] >>,
      << [start |-> Secs(4) - 1, end |-> Secs(4) + 1] >>,
      << [start |-> Secs(3), end |-> Secs(3) + HalfSec] >>,
      << [start |-> Secs(1), end |-> Secs(2)], [start |-> Secs(3), end |-> Secs(4)] >> }

\* Per-second packet sizes of the analysed file: front-loaded, constant, one
\* heavy second, and two with seconds that hold no packet.
ByteProfiles ==
    { <<30, 10, 5, 5, 5, 5, 5>>, <<10, 10, 10, 10, 10, 10, 10>>, <<5, 5, 60, 5, 5, 5, 5>>,
      <<10, 10, 0, 0, 5, 5, 5>>, <<10, 10, 0, 20, 5, 5, 5>> }

\* One packet row per started second of the file.
PacketRows(profile, duration) ==
    [k \in 1..Min(CeilSec(duration), Len(profile)) |-> <<Secs(k - 1), profile[k]>>]

\* Arguments of compute_cut_points.  Bytes and bits per second are small
\* numbers so that every case of the arithmetic is met within a few seconds.
\* Only files of at most MaxParts full-size parts are given.
MaxParts == 20

UniformInputs ==
    {c \in [kind : {"uniform"}, duration : 1..MaxDurTicks, bitrate_bps : {8, 40, 160},
            max_bytes : {2, 3, 5, 20, 21, 50}, tolerance_secs : {Secs(1), Secs(30)},
            silences : SilenceLists] :
        c.duration <= MaxParts * MaxDuration(EffectiveMax(c.max_bytes), c.bitrate_bps)}

\* Budgets of one byte, whose 2% margin leaves effective_max_bytes = 0.
OneByteInputs ==
    [kind : {"uniform"}, duration : {1, Secs(1), Secs(6)}, bitrate_bps : {8, 160},
     max_bytes : {1}, tolerance_secs : {Secs(1), Secs(30)}, silences : SilenceLists]

\* The two scenarios of the unit tests, with bytes and bits per second in
\* units of 10^6: 600 s at 8 Mbit/s with 200 MB parts and two silences, and
\* 100 s at 1 Mbit/s with 100 MB parts.
Scenario600 ==
    [kind |-> "uniform", duration |-> Secs(600), bitrate_bps |-> 8, max_bytes |-> 200,
     tolerance_secs |-> Secs(30),
     silences |-> << [start |-> Secs(195), end |-> Secs(197)],
                     [start |-> Secs(390), end |-> Secs(392)] >>]

Scenario100 ==
    [kind |-> "uniform", duration |-> Secs(100), bitrate_bps |-> 1, max_bytes |-> 100,
     tolerance_secs |-> Secs(30), silences |-> <<>>]

\* Arguments of compute_cut_points_accurate; the map is the one
\* extract_bitrate_map builds from the packet rows of the file.
AccurateInputs ==
    [kind : {"accurate"}, duration : 1..MaxDurTicks, profile : ByteProfiles,
     max_bytes : {2, 3, 5, 20, 21, 50}, tolerance_secs : {Secs(1), Secs(30)},
     silences : SilenceLists]

MapOf(c) == extract_bitrate_map(PacketRows(c.profile, c.duration), c.duration, TRUE)

PlannerInit ==
    /\ ProgramInit
    /\ fn = "none"
    /\ call \in UniformInputs \cup OneByteInputs \cup {Scenario600, Scenario100}
                \cup AccurateInputs
    /\ ret = <<>>

call_compute_cut_points ==
    /\ fn = "none"
    /\ call.kind = "uniform"
    /\ fn' = "compute_cut_points"
    /\ ret' = compute_cut_points(call.duration, call.bitrate_bps, call.max_bytes,
                                 call.tolerance_secs, call.silences)
    /\ UNCHANGED <<call, queueVars, projectVars, autoCutVars, batchVars, crashed>>

call_compute_cut_points_accurate ==
    /\ fn = "none"
    /\ call.kind = "accurate"
    /\ fn' = "compute_cut_points_accurate"
    /\ ret' = compute_cut_points_accurate(call.duration, call.max_bytes,
                                          call.tolerance_secs, call.silences, MapOf(call))
    /\ UNCHANGED <<call, queueVars, projectVars, autoCutVars, batchVars, crashed>>

PlannerNext ==
    \/ call_compute_cut_points
    \/ call_compute_cut_points_accurate

PlannerSpec == PlannerInit /\ [][PlannerNext]_vars

\* ---------------------------------------------- the BitrateMap, queried
\* Times given to the queries are the quarter seconds up to MaxQuarter.
MaxQuarter == 28

MapTimes == {5 * k : k \in 0..MaxQuarter}

\* Durations of the analysed files: whole and fractional.
MapDurations == {Secs(3), Secs(3) + HalfSec, Secs(6)}

\* Arguments of extract_bitrate_map: the packet rows the analyzer prints (none
\* for the empty profile) and whether the analyzer could be started.
\* Packet rows stamped at or after the last whole second of the file, as
\* <<ticks past ceil(duration), size>>: none, one on the boundary, one half a
\* second past it, and two rows two seconds past it.
LateRows ==
    { <<>>, << <<0, 7>> >>, << <<HalfSec, 7>> >>,
      << <<Secs(2), 3>>, <<Secs(2), 4>> >> }

ExtractInputs ==
    [kind : {"extract"}, duration : MapDurations,
     profile : ByteProfiles \cup {<<>>}, late : LateRows, run_ok : BOOLEAN]

\* The rows the analyzer prints for an input of ExtractInputs.
ExtractRows(c) ==
    PacketRows(c.profile, c.duration)
        \o [k \in 1..Len(c.late) |->
               <<Secs(CeilSec(c.duration)) + c.late[k][1], c.late[k][2]>>]

BytesBetweenInputs ==
    [kind : {"bytes_between"}, duration : MapDurations, profile : ByteProfiles,
     start : MapTimes, end : MapTimes]

TimeForBytesInputs ==
    [kind : {"time_for_bytes"}, duration : MapDurations, profile : ByteProfiles,
     start : MapTimes, target_bytes : {0, 1, 5, 20, 40}]

MapInit ==
    /\ ProgramInit
    /\ fn = "none"
    /\ call \in ExtractInputs \cup BytesBetweenInputs \cup TimeForBytesInputs
    /\ ret = <<>>

call_extract_bitrate_map ==
    /\ fn = "none"
    /\ call.kind = "extract"
    /\ fn' = "extract_bitrate_map"
    /\ ret' = extract_bitrate_map(ExtractRows(call), call.duration, call.run_ok)
    /\ UNCHANGED <<call, queueVars, projectVars, autoCutVars, batchVars, crashed>>

call_bytes_between ==
    /\ fn = "none"
    /\ call.kind = "bytes_between"
    /\ fn' = "bytes_between"
    /\ ret' = bytes_between(MapOf(call), call.start, call.end)
    /\ UNCHANGED <<call, queueVars, projectVars, autoCutVars, batchVars, crashed>>

call_time_for_bytes ==
    /\ fn = "none"
    /\ call.kind = "time_for_bytes"
    /\ fn' = "time_for_bytes"
    /\ ret' = time_for_bytes(MapOf(call), call.start, call.target_bytes)
    /\ UNCHANGED <<call, queueVars, projectVars, autoCutVars, batchVars, crashed>>

MapNext ==
    \/ call_extract_bitrate_map
    \/ call_bytes_between
    \/ call_time_for_bytes

MapSpec == MapInit /\ [][MapNext]_vars

\* --------------------------------------------- auto_split_segment, called
\* Segments given to auto_split_segment, each with end_time > start_time:
\* from 0.05 s and 0.55 s long up to the whole file.
SplitSegments ==
    {g \in [start_time : {0, Secs(1), Secs(1) + HalfSec},
            end_time : {Secs(1) + 1, Secs(1) + HalfSec + 1,
                        Secs(2), Secs(4) - 1, Secs(5), Secs(6)},
            label : {<<"Segment", 1>>}, enabled : BOOLEAN,
            estimated_size_bytes : {0, 5, 20, 60}] :
        g.end_time > g.start_time}

\* Length of the file the segments are cut from.
SplitFileDuration == Secs(6)

\* Arguments of auto_split_segment.  The map is Some(..) when map_given: the
\* one extract_bitrate_map built for the file, empty if run_ok is FALSE.
\* Without a map only segments of at most MaxParts full-size parts are given.
SplitInputs ==
    {c \in [kind : {"auto_split"}, segment : SplitSegments,
            max_bytes : {0, 2, 5, 20, 21, 50}, bitrate_bps : {0, 8, 40, 160},
            map_given : BOOLEAN, run_ok : BOOLEAN, profile : ByteProfiles] :
        /\ ~c.map_given => (c.run_ok /\ c.profile = <<10, 10, 10, 10, 10, 10, 10>>)
        /\ (~c.map_given /\ c.bitrate_bps > 0) =>
              SegmentDuration(c.segment) * c.bitrate_bps
                  <= MaxParts * EffectiveMax(c.max_bytes) * 8 * TicksPerSec}

SplitMap(c) ==
    extract_bitrate_map(PacketRows(c.profile, SplitFileDuration), SplitFileDuration,
                        c.run_ok)

SplitInit ==
    /\ ProgramInit
    /\ fn = "none"
    /\ call \in SplitInputs
    /\ ret = <<>>

\* A call on an empty map panics and returns nothing.
call_auto_split_segment ==
    /\ fn = "none"
    /\ call.kind = "auto_split"
    /\ fn' = "auto_split_segment"
    /\ crashed' = auto_split_panics(call.max_bytes, call.map_given, SplitMap(call))
    /\ ret' = IF crashed' THEN <<>>
              ELSE auto_split_segment(call.segment, call.max_bytes, call.bitrate_bps,
                                      call.map_given, SplitMap(call))
    /\ UNCHANGED <<call, queueVars, projectVars, autoCutVars, batchVars>>

SplitNext == call_auto_split_segment

SplitSpec == SplitInit /\ [][SplitNext]_vars

\* ------------------------------------------------------------------ C8
\* The results of the current batch whose file position is still in range.
BatchPaths == {files[batch_results[k][1]] :
                  k \in {n \in 1..Len(batch_results) : batch_results[n][1] <= Len(files)}}

\* C8: a poll_batch call that sees fewer detection results than the batch has
\* files derives nothing: batch_running stays set, the results stay where
\* they are, the per-file segment map, the active segments and the queue are
\* untouched.  The first call that sees all of them aggregates: it clears
\* batch_running, takes the results and stores a segment list under the path
\* of every result.  Nothing here depends on the order of the results.
C8_PollWaitsForAll ==
    [][poll_batch =>
         IF Len(batch_results) < batch_total
         THEN /\ batch_running'
              /\ batch_results' = batch_results
              /\ file_segments' = file_segments
              /\ segments' = segments
              /\ jobs' = jobs
         ELSE /\ ~batch_running'
              /\ batch_results' = <<>>
              /\ BatchPaths \subseteq DOMAIN file_segments'
              /\ batch_status'[1] = "Batch done"]_vars

\* A poll has seen one result of two, that of the second file, and has left
\* the batch running with nothing stored for either file.
C8_Witness ==
    /\ batch_running
    /\ batch_total = 2
    /\ batch_status = <<"Analyzing", 1, 2>>
    /\ Len(batch_results) = 1
    /\ batch_results[1][1] = 2
    /\ file_segments = EmptyMap

\* ------------------------------------------------------------------ C9
\* C9: for the batch launched last by batch_process_and_export, poll_batch has
\* not called export_all_files while the batch runs and has called it exactly
\* once from the moment the batch is aggregated on, however often poll_batch
\* is called afterwards.
C9_ExportOncePerBatch ==
    batch_mode = "export" =>
        /\ batch_running => exports_of_batch = 0 /\ batch_auto_export
        /\ ~batch_running => exports_of_batch = 1

\* An export batch over a file has been aggregated and its one export call
\* has queued jobs.
C9_Witness ==
    /\ batch_mode = "export"
    /\ ~batch_running
    /\ batch_status # <<>>
    /\ batch_status[1] = "Batch done"
    /\ exports_of_batch = 1
    /\ Len(jobs) >= 2

\* ------------------------------------------------------------------ C10
\* The (start, end) pairs of a segment list.
CutsOf(segs) == [i \in 1..Len(segs) |-> <<segs[i].start_time, segs[i].end_time>>]

\* The result that decides what is stored under its file's path: its file
\* position is in range and no later result is for the same path.
DecidingResult(k) ==
    /\ batch_results[k][1] <= Len(files)
    /\ \A n \in (k + 1)..Len(batch_results) :
           batch_results[n][1] <= Len(files) =>
               files[batch_results[n][1]] # files[batch_results[k][1]]

\* The cut points of the planner chosen by the cache: the accurate one for a
\* path with a non-empty cached BitrateMap, the uniform one otherwise.
PlannerByCache(path, silences) ==
    IF path \in DOMAIN bitrate_maps /\ ~is_empty(bitrate_maps[path])
    THEN compute_cut_points_accurate(Info(path).duration, max_size, Tolerance,
                                     silences, bitrate_maps[path])
    ELSE compute_cut_points(Info(path).duration, compute_bitrate(Info(path)),
                            max_size, Tolerance, silences)

\* C10: the poll_batch call that aggregates stores, under the path of every
\* result, the segments of the planner chosen per file: the accurate planner
\* when the cache holds a non-empty BitrateMap for the file, the uniform
\* planner only when it does not.
C10_PlannerPerFile ==
    [][poll_batch /\ ~(Len(batch_results) < batch_total) =>
         \A k \in 1..Len(batch_results) :
             DecidingResult(k) =>
                 LET path == files[batch_results[k][1]] IN
                 /\ path \in DOMAIN file_segments'
                 /\ CutsOf(file_segments'[path]) = PlannerByCache(path, batch_results[k][2])
      ]_vars

\* ------------------------------------------------------------------ C11
\* A list of (start, end) pairs that starts at 0, in which each pair starts
\* where the one before it ends, and that ends at `duration`.
CoversExactly(cuts, duration) ==
    /\ Len(cuts) >= 1
    /\ cuts[1][1] = 0
    /\ \A i \in 2..Len(cuts) : cuts[i][1] = cuts[i - 1][2]
    /\ cuts[Len(cuts)][2] = duration

\* C11: for every duration > 0, bitrate > 0, max_bytes > 0, tolerance and
\* silence list, compute_cut_points returns a non-empty list that starts at
\* 0, is contiguous and ends exactly at duration.
C11_UniformCovers ==
    (fn = "compute_cut_points"
        /\ call.duration > 0 /\ call.bitrate_bps > 0 /\ call.max_bytes > 0)
    => CoversExactly(ret, call.duration)

\* ------------------------------------------------------------------ C12
\* duration * bitrate_bps / 8 <= max_bytes * 0.98, without rounding.
FitsBudget(duration, bitrate_bps, max_bytes) ==
    duration * bitrate_bps * 100 <= max_bytes * 98 * 8 * TicksPerSec

\* C12: whenever duration * bitrate_bps / 8 <= max_bytes * 0.98, also when
\* max_bytes * 0.98 is not a whole number, compute_cut_points returns exactly
\* the one segment (0, duration).
C12_FitsInOne ==
    (fn = "compute_cut_points"
        /\ FitsBudget(call.duration, call.bitrate_bps, call.max_bytes))
    => ret = << <<0, call.duration>> >>

\* ------------------------------------------------------------------ C13
\* The segment starting at `cursor` is not the last one and had its end set
\* by the minimum-advance rule.
ForcedByMinAdvance(c, i) ==
    /\ i < Len(ret)
    /\ MinAdvanceApplies(
          AccurateCandidate(ret[i][1], c.duration, EffectiveMax(c.max_bytes),
                            c.tolerance_secs, c.silences, MapOf(c)),
          ret[i][1])

\* C13: every segment compute_cut_points_accurate returns for a non-empty map
\* holds at most max_bytes * 0.98 bytes by that map, unless its end was set by
\* the minimum-advance rule.
C13_AccurateWithinBudget ==
    (fn = "compute_cut_points_accurate" /\ ~is_empty(MapOf(call)))
    => \A i \in 1..Len(ret) :
           \/ ForcedByMinAdvance(call, i)
           \/ bytes_between(MapOf(call), ret[i][1], ret[i][2]) * 100
                  <= call.max_bytes * 98

\* ------------------------------------------------------------------ C14
\* C14: for every duration > 0, max_bytes > 0, silence list and non-empty map,
\* compute_cut_points_accurate returns segments that start at 0, are
\* contiguous and end exactly at duration, whichever rule set the cuts.
C14_AccurateCovers ==
    (fn = "compute_cut_points_accurate"
        /\ call.duration > 0 /\ call.max_bytes > 0 /\ ~is_empty(MapOf(call)))
    => CoversExactly(ret, call.duration)

\* ------------------------------------------------------------------ C15
\* C15: on a non-empty BitrateMap, bytes_between(t, t) is 0 for every time t
\* in [0, duration], whole or fractional, and bytes_between(start, end1) is
\* at most bytes_between(start, end2) whenever end1 <= end2.
C15_BytesBetween ==
    (fn = "bytes_between" /\ ~is_empty(MapOf(call))) =>
        /\ (call.start = call.end /\ call.start <= call.duration) => ret = 0
        /\ \A end1 \in MapTimes :
              end1 <= call.end =>
                  bytes_between(MapOf(call), call.start, end1) <= ret

\* ------------------------------------------------------------------ C16
\* C16: extract_bitrate_map returns a map whose cumulative_bytes is empty
\* both when the packet analyzer cannot be run and when it runs but yields no
\* packet rows.
C16_NoPacketsGivesEmptyMap ==
    (/\ fn = "extract_bitrate_map"
     /\ (~call.run_ok \/ ExtractRows(call) = <<>>)) =>
        is_empty(ret)

\* ------------------------------------------------------------------ C17
\* C17: once poll_auto_cut has cached an empty BitrateMap for a file, no
\* later operation on that file queries the empty map or ends in a panic:
\* the empty map is treated as unavailable and the uniform path is used.
C17_EmptyMapIsSilent ==
    (\E p \in DOMAIN bitrate_maps : is_empty(bitrate_maps[p])) => ~crashed

\* ------------------------------------------------------------------ C18
\* The size auto_split_segment compares with max_bytes.
RealSize(c) ==
    IF c.map_given
    THEN bytes_between(SplitMap(c), c.segment.start_time, c.segment.end_time)
    ELSE c.segment.estimated_size_bytes

\* C18: for a segment whose size (bytes_between of the map when one is given,
\* else the stored estimated_size_bytes) is at most max_bytes, and for
\* max_bytes = 0, auto_split_segment returns exactly the input segment, equal
\* in start_time, end_time, label, enabled and estimated_size_bytes.
C18_WithinBudgetUnchanged ==
    (/\ fn = "auto_split_segment"
     /\ ~crashed
     /\ (call.max_bytes = 0 \/ RealSize(call) <= call.max_bytes)) =>
        ret = <<call.segment>>

\* A segment of 20 bytes by its map, within the budget of 20 but above the
\* budget less its margin and with a stored estimate of 60, came back alone.
C18_Witness ==
    /\ fn = "auto_split_segment"
    /\ call.map_given
    /\ call.max_bytes = 20
    /\ RealSize(call) = 20
    /\ call.segment.estimated_size_bytes = 60
    /\ ret = <<call.segment>>

\* ------------------------------------------------------------------ C19
\* auto_split_segment applied again, with the arguments of the call, to a
\* sub-segment it produced.
SplitAgain(c, sub) ==
    auto_split_segment(sub, c.max_bytes, c.bitrate_bps, c.map_given, SplitMap(c))

\* C19: for an oversized segment, every sub-segment auto_split_segment
\* produces is within max_bytes, and applying auto_split_segment to it with
\* the same budget and map (or bitrate) returns that sub-segment alone and
\* unchanged: it is neither split nor relabelled again.
C19_SplitIdempotent ==
    (/\ fn = "auto_split_segment"
     /\ ~crashed
     /\ call.max_bytes > 0
     /\ RealSize(call) > call.max_bytes) =>
        \A i \in 1..Len(ret) :
            /\ RealSize([call EXCEPT !.segment = ret[i]]) <= call.max_bytes
            /\ SplitAgain(call, ret[i]) = <<ret[i]>>

\* ------------------------------------------------------------------ C20
\* ideal_end of the cut that compute_cut_points makes from `cursor`.
IdealEnd(c, cursor) ==
    Min(cursor + MaxDuration(EffectiveMax(c.max_bytes), c.bitrate_bps), c.duration)

\* Midpoints of the silences lying within the search window of that cut.
MidpointsInWindow(c, cursor) ==
    {(c.silences[k].start + c.silences[k].end) \div 2 : k \in
        {k \in 1..Len(c.silences) :
            LET mid == (c.silences[k].start + c.silences[k].end) \div 2
            IN /\ mid >= Max(IdealEnd(c, cursor) - c.tolerance_secs, cursor + OneSec)
               /\ mid <= Min(IdealEnd(c, cursor) + c.tolerance_secs, c.duration)}}

\* C20: for duration 600 s, 8,000,000 bit/s, max_bytes 200,000,000, silences
\* (195, 197) and (390, 392) and tolerance 30, compute_cut_points returns at
\* least 3 segments, every boundary between two consecutive segments equals
\* the midpoint of a silence lying within the search window of that cut, and
\* the last segment ends at 600.
C20_ScenarioAllMidpoints ==
    (fn = "compute_cut_points" /\ call = Scenario600) =>
        /\ Len(ret) >= 3
        /\ \A i \in 1..(Len(ret) - 1) : ret[i][2] \in MidpointsInWindow(call, ret[i][1])
        /\ ret[Len(ret)][2] = Secs(600)

\* C20 as it holds: at least 3 segments, contiguous; a boundary whose search
\* window holds a silence equals that silence's midpoint, a boundary whose
\* window holds none equals ideal_end = cursor + max_duration; the last
\* segment ends at 600.
C20_ScenarioMidpointOrIdeal ==
    (fn = "compute_cut_points" /\ call = Scenario600) =>
        /\ Len(ret) >= 3
        /\ \A i \in 1..(Len(ret) - 1) :
              /\ ret[i][2] = ret[i + 1][1]
              /\ IF MidpointsInWindow(call, ret[i][1]) # {}
                 THEN ret[i][2] \in MidpointsInWindow(call, ret[i][1])
                 ELSE ret[i][2] = IdealEnd(call, ret[i][1])
        /\ ret[Len(ret)][2] = Secs(600)

\* The scenario has been planned: cuts at the two silence midpoints 196 s and
\* 391 s, and a third at 587 s where no silence is in the window.
C20_Witness ==
    /\ fn = "compute_cut_points"
    /\ call = Scenario600
    /\ Len(ret) = 4
    /\ ret[1][2] = Secs(196)
    /\ ret[2][2] = Secs(391)
    /\ ret[3][2] = Secs(587)
    /\ MidpointsInWindow(call, ret[3][1]) = {}

\* ------------------------------------------------------------------ C21
\* C21: a rejected request changes nothing but the status message:
\* split_segment_at with a time not strictly inside the segment or an index
\* out of range, export_all with no enabled segment, and export_all_files
\* when no file has an enabled segment each leave the active segment list,
\* the per-file segment map and the export queue as they were.
C21_RejectedChangesNothing ==
    [][(\/ \E index \in 1..(Len(segments) + 1), time \in SplitTimes :
              SplitAt(index, time) /\ SplitRejected(index, time)
        \/ export_all /\ ExportRejected
        \/ click_export_all_files /\ NothingToExport)
       => /\ segments' = segments
          /\ file_segments' = file_segments
          /\ jobs' = jobs]_vars

\* ------------------------------------------------------------------ C22
\* C22: in compute_cut_points_accurate every cut point that is not the end
\* of the final segment is at least 1 second past the cursor it was computed
\* from, also for a fractional cursor left by a silence midpoint: every
\* non-final segment is at least 1 second long.
C22_AdvanceOneSecond ==
    fn = "compute_cut_points_accurate" =>
        \A i \in 1..(Len(ret) - 1) : ret[i][2] - ret[i][1] >= OneSec

\* ------------------------------------------------------------------ C23
\* ceil(duration / max_duration) for the segment and budget of the call,
\* with max_duration = effective_max / (bitrate_bps / 8).
CeilParts(c) ==
    LET d == EffectiveMax(c.max_bytes) * 8 * TicksPerSec
    IN (SegmentDuration(c.segment) * c.bitrate_bps + d - 1) \div d

\* C23: without a BitrateMap, auto_split_segment on an oversized segment
\* returns ceil(duration / max_duration) sub-segments that all have the same
\* duration, also when the duration is not a whole multiple of max_duration.
C23_UniformEqualParts ==
    (/\ fn = "auto_split_segment"
     /\ ~call.map_given
     /\ call.bitrate_bps > 0
     /\ EffectiveMax(call.max_bytes) > 0
     /\ RealSize(call) > call.max_bytes) =>
        /\ Len(ret) = CeilParts(call)
        /\ \A i, k \in 1..Len(ret) : SegmentDuration(ret[i]) = SegmentDuration(ret[k])

\* ------------------------------------------------------------------ C24
\* C24: compute_cut_points terminates with a finite segment list for every
\* duration > 0, bitrate_bps > 0 and max_bytes > 0, also when the budget is
\* so small that effective_max_bytes is 0: the cursor strictly increases in
\* every loop iteration, so the loop is left by its own condition, with the
\* cursor within 0.1 s of the end.
C24_CutLoopTerminates ==
    (/\ fn = "compute_cut_points"
     /\ call.duration > 0 /\ call.bitrate_bps > 0 /\ call.max_bytes > 0) =>
        /\ \A i \in 1..Len(ret) : ret[i][2] > ret[i][1]
        /\ ret = <<>> \/ ret[Len(ret)][2] >= call.duration - TenthSec

\* ------------------------------------------------------------------ C25
\* What the analysis of the file at `path` can yield: its bitrate map, and
\* the segments poll_auto_cut builds from its silences and its map.
MapsOfFile(path) ==
    {extract_bitrate_map(Packets(path), Info(path).duration, run_ok) : run_ok \in BOOLEAN}

PlansOfFile(path, max_bytes) ==
    {SegmentsFromCuts(
        IF ~is_empty(bm)
        THEN compute_cut_points_accurate(Info(path).duration, max_bytes, Tolerance,
                                         detected, bm)
        ELSE compute_cut_points(Info(path).duration, compute_bitrate(Info(path)),
                                max_bytes, Tolerance, detected),
        Info(path), ~is_empty(bm), bm) :
            bm \in MapsOfFile(path), detected \in {Silences(path), <<>>}}

\* C25: the segments and the BitrateMap that poll_auto_cut stores under a
\* file's path were both derived from the analysis of that same file, also
\* when between start_auto_cut and the consuming poll the user selects
\* another file or starts the auto-cut again.
C25_AutoCutOfSameFile ==
    [][(poll_auto_cut /\ selected_file(files, selected_file_index) # NoIndex) =>
          LET path == files[selected_file_index]
          IN /\ bitrate_maps'[path] \in MapsOfFile(path)
             /\ file_segments'[path] \in PlansOfFile(path, max_size)]_vars

\* ------------------------------------------------------------------ C26
\* C26: the segment list poll_batch stores under a file's path is computed
\* from the silences detected in that same file, also when files are removed
\* from or added to the project between start_batch_auto_cut and the
\* aggregating poll: no result is applied to another file than the one it
\* was detected on.
C26_ResultOfSameFile ==
    [][(poll_batch /\ ~BatchStillRunning(Len(batch_results), batch_total)) =>
          \A k \in 1..Len(batch_results) :
              batch_results[k][1] <= Len(files) =>
                  files[batch_results[k][1]] = batch_results[k][3]]_vars

\* ------------------------------------------------------------------ C27
\* C27: poll_batch triggers export_all_files only for a batch that was
\* itself started by batch_process_and_export: a batch started with plain
\* start_batch_auto_cut finishes without queuing any export job, also after
\* a batch_process_and_export call that was rejected before launch.
C27_PlainBatchExportsNothing ==
    [][(/\ poll_batch
        /\ ~BatchStillRunning(Len(batch_results), batch_total)
        /\ batch_mode = "plain") =>
          /\ jobs' = jobs
          /\ exports_of_batch' = exports_of_batch]_vars

\* ------------------------------------------------------------------ C28
\* Sum of the sizes of the packet rows.
RECURSIVE TotalSize(_)
TotalSize(rows) ==
    IF rows = <<>> THEN 0 ELSE Head(rows)[2] + TotalSize(Tail(rows))

\* C28: the map extract_bitrate_map builds conserves bytes: its last
\* cumulative value is the sum of the sizes of all packet rows read, rows
\* stamped at or past ceil(duration) included, and so is
\* bytes_between(0, duration).
C28_MapConservesBytes ==
    (fn = "extract_bitrate_map" /\ call.run_ok) =>
        /\ ret.cumulative_bytes[Len(ret.cumulative_bytes)] = TotalSize(ExtractRows(call))
        /\ bytes_between(ret, 0, call.duration) = TotalSize(ExtractRows(call))

\* ------------------------------------------------------------------ C29
\* C29: for every segment with end_time > start_time and every budget, the
\* list auto_split_segment returns is not empty, starts at the segment's
\* start_time, is contiguous with every element ending after it starts, and
\* ends at the segment's end_time; oversized segments shorter than 0.1 s or
\* than 1 s on the BitrateMap path included.
C29_SplitCoversSegment ==
    (/\ fn = "auto_split_segment"
     /\ ~crashed
     /\ call.segment.end_time > call.segment.start_time) =>
        /\ ret # <<>>
        /\ ret[1].start_time = call.segment.start_time
        /\ \A i \in 1..Len(ret) : ret[i].end_time > ret[i].start_time
        /\ \A i \in 1..(Len(ret) - 1) : ret[i + 1].start_time = ret[i].end_time
        /\ ret[Len(ret)].end_time = call.segment.end_time

\* ------------------------------------------------------------------ C30
\* C30: whenever the queue lock is free, is_processing is true exactly when
\* some job of the queue is Running, for every sequence of process_queue,
\* task completion, cancel_all, clear_finished and remove_job, also when
\* remove_job takes the job that is Running.
C30_FlagIffRunning == is_processing <=> RunningJobs # {}

====
